---------------------------- MODULE Spec2Model ----------------------------
(***************************************************************************)
(* A model of KijijiApi (kijiji_api.py): a cookie-session HTTP client that *)
(* logs in, lists, deletes and posts ads and uploads images.  The client   *)
(* is single threaded; every step below is one HTTP request together with  *)
(* the code that consumes its response, up to the next request.  The       *)
(* server is the environment: its responses are drawn nondeterministically *)
(* from the shapes the client's code distinguishes.                        *)
(***************************************************************************)
EXTENDS Integers, Sequences, FiniteSets, TLC

(* ------------------------------ bounds --------------------------------- *)
\* ads the account holds at most
MaxAds == 2
\* length of image_files at most
MaxImages == 2

(* ------------------------- program constants --------------------------- *)
\* for i in range(0, 3)
MaxTries == 3
\* if not title_len >= 10
MinTitleLen == 10
\* if title_len > 64
MaxTitleLen == 64

AdIds == 1..MaxAds
\* Two xsrf token values: enough to tell a token from another one.
Tokens == {1, 2}
\* Whitespace and one other character: titles are told apart by their length.
Chars == {" ", "a"}
\* Python's None where a url is expected (urls are >= 1)
None == 0
NoId == 0

\* Sequences over S of length at most n.
SeqsUpTo(S, n) == UNION {[1..m -> S] : m \in 0..n}
\* Ad titles and title arguments of delete_ad_using_title.
Titles == SeqsUpTo(Chars, 2)

(* ----------------------------- str.strip ------------------------------- *)
IsSpace(c) == c = " "

RECURSIVE lstrip(_)
lstrip(s) == IF s # <<>> /\ IsSpace(Head(s)) THEN lstrip(Tail(s)) ELSE s

RECURSIVE rstrip(_)
rstrip(s) == IF s # <<>> /\ IsSpace(s[Len(s)]) THEN rstrip(SubSeq(s, 1, Len(s) - 1)) ELSE s

strip(s) == rstrip(lstrip(s))

(* ------------------------------- urls ---------------------------------- *)
LoginUrl == "t-login.html"
MyAdsUrl == "m-my-ads.html"
LogoutUrl == "m-logout.html"
DeleteUrl == "j-delete-ad.json"
UploadUrl == "p-upload-image.html"
PostFormUrl == "p-admarkt-post-ad.html"
SubmitUrl == "p-submit-ad.html"
AdsUrl == "my/ads.json"
RanksUrl == "my/ranks"

\* One entry of the transport log: the request (n: the ad or image it is
\* about, ids: the 'ids' parameters, tok: the xsrf token sent) and what of
\* the response the client looks at (status; ok: the body holds what is
\* looked for; val: the thumbnail url or the page's token; ban: the ban
\* sentence).
Req(method, url) ==
    [method |-> method, url |-> url, n |-> 0, ids |-> <<>>, tok |-> 0,
     status |-> "ok", ok |-> FALSE, val |-> 0, ban |-> FALSE]

VARIABLES
    pc,            \* position of the client: "idle", a request about to be made, or "done"
    op,            \* the public method the caller invoked
    auth0,         \* the server's view of the session when the method was invoked
    serverAuth,    \* server: the session cookie is logged in
    serverAds,     \* server: the account's active ads, id -> title
    log,           \* requests issued by the current call, in order
    outcome,       \* how the current call ended: [kind, exc]
    creds,         \* login: whether the server knows username/password
    title,         \* delete_ad_using_title: the title argument
    ad_id,         \* delete_ad: the ad id argument
    token,         \* delete_ad: the token scraped from the page
    ads_info,      \* get_all_ads: the parsed ad map, key -> record
    ranks_json,    \* get_all_ads: the parsed 'ranks' map of the ranks response, key -> rank
    all_ads,       \* get_all_ads' result / delete_ad_using_title: all_ads
    k,             \* delete_ad_using_title: position of the comprehension in all_ads
    nImages,       \* upload_image: len(image_files); image j is the j-th file
    imgIdx,        \* upload_image: the image of the outer loop
    i,             \* upload_image: the try of the inner loop
    image_urls,    \* upload_image: image_urls
    data,          \* post_ad_using_data: data (title length or "missing", description present)
    page,          \* post_ad_using_data: the form page (which tokens it holds)
    ret            \* the value the call returned

server == <<serverAuth, serverAds>>
frame == <<op, auth0>>
sessionLocals == <<creds>>
adsLocals == <<title, ad_id, token, ads_info, ranks_json, all_ads, k>>
postLocals == <<nImages, imgIdx, i, image_urls, data, page>>
vars == <<pc, op, auth0, serverAuth, serverAds, log, outcome, creds, title, ad_id,
          token, ads_info, ranks_json, all_ads, k, nImages, imgIdx, i, image_urls, data, page, ret>>

Running == [kind |-> "running", exc |-> "none"]
Returned == [kind |-> "return", exc |-> "none"]
Raised(e) == [kind |-> "raise", exc |-> e]

\* data has no "postAdForm.title" key
Missing == -1
NoData == [title |-> Missing, desc |-> FALSE, images |-> <<>>]
NoPage == [initTok |-> FALSE, xsrf |-> FALSE, fraud |-> FALSE]
EmptyMap == [x \in {} |-> 0]

\* The caller's frame before a call and after it has returned or raised.
NoCall ==
    /\ pc = "idle" /\ op = "none" /\ auth0 = FALSE
    /\ log = <<>> /\ outcome = Running
    /\ creds = "none" /\ title = <<>> /\ ad_id = NoId /\ token = 0
    /\ ads_info = EmptyMap /\ ranks_json = EmptyMap /\ all_ads = <<>> /\ k = 0
    /\ nImages = 0 /\ imgIdx = 0 /\ i = 0 /\ image_urls = <<>>
    /\ data = NoData /\ page = NoPage /\ ret = <<>>

\* The account's ads when the client is constructed: titles that differ by
\* trailing whitespace only, in turn.
FixedTitle(id) == IF id % 2 = 1 THEN <<"a">> ELSE <<"a", " ">>

Init ==
    /\ NoCall
    /\ serverAuth = FALSE
    /\ serverAds = [id \in AdIds |-> FixedTitle(id)]

\* Any titles at all.
InitAds ==
    /\ NoCall
    /\ serverAuth = FALSE
    /\ serverAds \in [AdIds -> Titles]

\* A public method is invoked: a fresh frame.
Invoke(name, first) ==
    /\ pc = "idle"
    /\ pc' = first
    /\ op' = name
    /\ auth0' = serverAuth
    /\ log' = <<>>
    /\ outcome' = Running
    /\ ret' = <<>>
    /\ UNCHANGED server

Finish(o) == pc' = "done" /\ outcome' = o

\* The call has returned or raised; the caller goes on.
Return ==
    /\ pc = "done"
    /\ pc' = "idle" /\ op' = "none" /\ auth0' = FALSE
    /\ log' = <<>> /\ outcome' = Running
    /\ creds' = "none" /\ title' = <<>> /\ ad_id' = NoId /\ token' = 0
    /\ ads_info' = EmptyMap /\ ranks_json' = EmptyMap /\ all_ads' = <<>> /\ k' = 0
    /\ nImages' = 0 /\ imgIdx' = 0 /\ i' = 0 /\ image_urls' = <<>>
    /\ data' = NoData /\ page' = NoPage /\ ret' = <<>>
    /\ UNCHANGED server

(* ============================== session ================================ *)
\* is_logged_in's test: "Sign Out" in the my-ads page; the server puts the
\* marker on the page exactly for a logged-in session.
MyAdsPage(loggedIn) == [signOut |-> loggedIn]
is_logged_in_Always(myAdsPage) == TRUE
is_logged_in(myAdsPage) == myAdsPage.signOut

CallLogin ==
    /\ \E c \in {"good", "bad"} : creds' = c
    /\ Invoke("login", "login_get")
    /\ UNCHANGED <<adsLocals, postLocals>>

\* resp = session.get(login_url); get_token; get_kj_data
LoginGet ==
    /\ pc = "login_get"
    /\ log' = Append(log, Req("GET", LoginUrl))
    /\ \E p \in {"ok", "no_token_field", "no_data_script"} :
         IF p = "ok"
         THEN pc' = "login_post" /\ UNCHANGED outcome
         ELSE Finish(Raised(IF p = "no_token_field" THEN "ElementNotFound" ELSE "DataNotFound"))
    /\ UNCHANGED <<frame, server, sessionLocals, adsLocals, postLocals, ret>>

\* The server's answer to the credential POST: a known account logs the
\* session in, an unknown one leaves the session as it was.
ServerLogin(c, was) == IF c = "good" THEN TRUE ELSE was

\* resp = session.post(login_url, data=payload); if not self.is_logged_in(): raise
LoginPost ==
    /\ pc = "login_post"
    /\ log' = Append(log, Req("POST", LoginUrl))
    /\ serverAuth' = ServerLogin(creds, serverAuth)
    /\ pc' = "login_probe"
    /\ UNCHANGED <<frame, serverAds, outcome, sessionLocals, adsLocals, postLocals, ret>>

LoginProbe ==
    /\ pc = "login_probe"
    /\ log' = Append(log, [Req("GET", MyAdsUrl) EXCEPT !.ok = MyAdsPage(serverAuth).signOut])
    /\ IF is_logged_in(MyAdsPage(serverAuth))
       THEN Finish(Returned)
       ELSE Finish(Raised("CouldNotLogIn"))
    /\ UNCHANGED <<frame, server, sessionLocals, adsLocals, postLocals, ret>>

CallIsLoggedIn ==
    /\ Invoke("is_logged_in", "probe")
    /\ UNCHANGED <<sessionLocals, adsLocals, postLocals>>

IsLoggedIn ==
    /\ pc = "probe"
    /\ log' = Append(log, [Req("GET", MyAdsUrl) EXCEPT !.ok = MyAdsPage(serverAuth).signOut])
    /\ ret' = <<is_logged_in(MyAdsPage(serverAuth))>>
    /\ Finish(Returned)
    /\ UNCHANGED <<frame, server, sessionLocals, adsLocals, postLocals>>

CallLogout ==
    /\ Invoke("logout", "logout_get")
    /\ UNCHANGED <<sessionLocals, adsLocals, postLocals>>

\* The request logout issues; the server ends the session on m-logout.html.
LogoutRequest_WrongUrl == Req("GET", MyAdsUrl)
LogoutRequest == Req("GET", LogoutUrl)
ServerAfter(req, was) == IF req.url = LogoutUrl THEN FALSE ELSE was

Logout ==
    /\ pc = "logout_get"
    /\ log' = Append(log, LogoutRequest)
    /\ serverAuth' = ServerAfter(LogoutRequest, serverAuth)
    /\ Finish(Returned)
    /\ UNCHANGED <<frame, serverAds, sessionLocals, adsLocals, postLocals, ret>>

(* ================================ ads ================================== *)
RECURSIVE SortedSeq(_)
SortedSeq(S) ==
    IF S = {} THEN <<>>
    ELSE LET m == CHOOSE x \in S : \A y \in S : x <= y
         IN  <<m>> \o SortedSeq(S \ {m})

\* dict.values(): the records in the order of the JSON object, which the
\* server writes by ascending id.
Values(info) == [j \in 1..Cardinality(DOMAIN info) |-> info[SortedSeq(DOMAIN info)[j]]]

AdRec(id, t) == [id |-> id, title |-> t]
WithRank(ad, rank) == [id |-> ad.id, title |-> ad.title, rank |-> rank]

\* The server's my/ads.json: the 'ads' map of the account's active ads.
AdsJson(ads) == [id \in DOMAIN ads |-> AdRec(id, ads[id])]

\* params = [("ids", ad['id']) for ad in ads_info.values()]
RankParams_DropLast(info) == [j \in 1..(Len(Values(info)) - 1) |-> Values(info)[j].id]
RankParams(info) == [j \in 1..Len(Values(info)) |-> Values(info)[j].id]

\* The keys a ranks response can hold: the ids of the account, and one more.
\* The server ranks ad id at page ServerRank(id): no two ads alike, and no
\* ad at the page of its own id, so that a rank given to the wrong ad shows.
RankKeys == 1..(MaxAds + 1)
ServerRank(id) == id + 10
RanksResponses == {[id \in D |-> ServerRank(id)] : D \in SUBSET RankKeys}

\* for ad_id, rank in ranks_json['ranks'].items(): ads_info[ad_id]['rank'] = rank
MergeFails(info, ranks) == \E key \in DOMAIN ranks : key \notin DOMAIN info
MergeRanks_Shifted(info, ranks) ==
    [key \in DOMAIN info |->
        IF key \in DOMAIN ranks
        THEN WithRank(info[key], ranks[CHOOSE x \in DOMAIN ranks : \A y \in DOMAIN ranks : x <= y])
        ELSE info[key]]
MergeRanks(info, ranks) ==
    [key \in DOMAIN info |->
        IF key \in DOMAIN ranks THEN WithRank(info[key], ranks[key]) ELSE info[key]]

\* ad['title'].strip() == title.strip()
Matches_NoStrip(ad, t) == ad.title = t
Matches(ad, t) == strip(ad.title) = strip(t)

\* The comprehension of delete_ad_using_title: the next ad at or after
\* position from that passes the filter, 0 when the list is exhausted.
NextMatch(ads, t, from) ==
    LET later == {j \in from..Len(ads) : Matches(ads[j], t)}
    IN  IF later = {} THEN 0 ELSE CHOOSE j \in later : \A m \in later : j <= m

\* get_all_ads returns ads: to its caller, or into delete_ad_using_title,
\* whose comprehension then starts.
ReturnAds(ads) ==
    IF op = "get_all_ads"
    THEN /\ ret' = ads
         /\ Finish(Returned)
         /\ UNCHANGED <<all_ads, k, ad_id>>
    ELSE /\ all_ads' = ads
         /\ k' = NextMatch(ads, title, 1)
         /\ ad_id' = IF k' = 0 THEN NoId ELSE ads[k'].id
         /\ IF k' = 0 THEN Finish(Returned) ELSE pc' = "del_page" /\ UNCHANGED outcome
         /\ UNCHANGED ret

CallGetAllAds ==
    /\ Invoke("get_all_ads", "ads_get")
    /\ UNCHANGED <<sessionLocals, adsLocals, postLocals>>

\* resp = session.get('my/ads.json'); raise_for_status(); ads_info = json['ads']
AdsGet ==
    /\ pc = "ads_get"
    /\ log' = Append(log, Req("GET", AdsUrl))
    /\ \E status \in {"ok", "http_error"} :
         IF status = "http_error"
         THEN /\ Finish(Raised("HTTPError"))
              /\ UNCHANGED <<ads_info, all_ads, k, ad_id, ret>>
         ELSE /\ ads_info' = AdsJson(serverAds)
              /\ IF ads_info' # EmptyMap
                 THEN pc' = "ranks_get" /\ UNCHANGED <<outcome, all_ads, k, ad_id, ret>>
                 ELSE ReturnAds(Values(ads_info'))
    /\ UNCHANGED <<frame, server, sessionLocals, title, token, ranks_json, postLocals>>

\* resp = session.get('my/ranks', params=params); raise_for_status(); merge
RanksGet ==
    /\ pc = "ranks_get"
    /\ log' = Append(log, [Req("GET", RanksUrl) EXCEPT !.ids = RankParams(ads_info)])
    /\ \/ /\ Finish(Raised("HTTPError"))
          /\ UNCHANGED <<ads_info, ranks_json, all_ads, k, ad_id, ret>>
       \/ \E ranks \in RanksResponses :
            /\ ranks_json' = ranks
            /\ IF MergeFails(ads_info, ranks)
               THEN /\ Finish(Raised("KeyError"))
                    /\ UNCHANGED <<ads_info, all_ads, k, ad_id, ret>>
               ELSE /\ ads_info' = MergeRanks(ads_info, ranks)
                    /\ ReturnAds(Values(ads_info'))
    /\ UNCHANGED <<frame, server, sessionLocals, title, token, postLocals>>

CallDeleteAd ==
    /\ \E a \in AdIds : ad_id' = a
    /\ Invoke("delete_ad", "del_page")
    /\ UNCHANGED <<sessionLocals, title, token, ads_info, ranks_json, all_ads, k, postLocals>>

\* The m-my-ads.html page: whether an inline script holds the Zoop.init
\* config, and the token in it.
MyAdsPages == [zoop : BOOLEAN, token : Tokens]
XsrfFound(p) == p.zoop
get_xsrf_token_Fixed(p) == 1
get_xsrf_token(p) == p.token

\* my_ads_page = session.get('m-my-ads.html'); get_xsrf_token(my_ads_page.text)
DeletePage ==
    /\ pc = "del_page"
    /\ \E p \in MyAdsPages :
         /\ log' = Append(log, [Req("GET", MyAdsUrl) EXCEPT !.ok = p.zoop, !.val = p.token])
         /\ IF XsrfFound(p)
            THEN token' = get_xsrf_token(p) /\ pc' = "del_post" /\ UNCHANGED outcome
            ELSE token' = token /\ Finish(Raised("XsrfTokenNotFound"))
    /\ UNCHANGED <<frame, server, sessionLocals, title, ad_id, ads_info, ranks_json,
                   all_ads, k, postLocals, ret>>

\* The server's reaction to a delete POST that it answers with "OK".
ServerDelete(ads, id) == [x \in DOMAIN ads \ {id} |-> ads[x]]

\* params = {..., 'ads': '[{"adId":"<ad_id>",...}]', 'ca.kijiji.xsrf.token': <token>}
DeleteRequest(id, tok) == [Req("POST", DeleteUrl) EXCEPT !.n = id, !.tok = tok]

\* resp = session.post('j-delete-ad.json', data=params); if "OK" not in resp.text: raise
DeletePost ==
    /\ pc = "del_post"
    /\ \/ /\ log' = Append(log, DeleteRequest(ad_id, token))
          /\ Finish(Raised("CouldNotDeleteAd"))
          /\ UNCHANGED <<serverAds, k, ad_id>>
       \/ /\ log' = Append(log, [DeleteRequest(ad_id, token) EXCEPT !.ok = TRUE])
          /\ serverAds' = ServerDelete(serverAds, ad_id)
          /\ IF op = "delete_ad"
             THEN Finish(Returned) /\ UNCHANGED <<k, ad_id>>
             ELSE /\ k' = NextMatch(all_ads, title, k + 1)
                  /\ ad_id' = IF k' = 0 THEN NoId ELSE all_ads[k'].id
                  /\ IF k' = 0 THEN Finish(Returned) ELSE pc' = "del_page" /\ UNCHANGED outcome
    /\ UNCHANGED <<frame, serverAuth, sessionLocals, title, token, ads_info, ranks_json,
                   all_ads, postLocals, ret>>

CallDeleteAdUsingTitle ==
    /\ \E t \in Titles : title' = t
    /\ Invoke("delete_ad_using_title", "ads_get")
    /\ UNCHANGED <<sessionLocals, ad_id, token, ads_info, ranks_json, all_ads, k, postLocals>>

NextAds ==
    \/ CallGetAllAds \/ AdsGet \/ RanksGet
    \/ CallDeleteAd \/ DeletePage \/ DeletePost
    \/ CallDeleteAdUsingTitle
    \/ Return

(* ============================ upload, post ============================= *)
\* What one upload POST can come back as: a 4xx/5xx status; a body that is
\* not JSON; JSON that is not an object; an object without 'thumbnailUrl';
\* an object whose 'thumbnailUrl' is null; an object with a url.
UploadOutcomes == {"http_error", "not_json", "not_object", "no_key", "null_url", "url"}

\* The try block ran to its break: json.loads and ['thumbnailUrl'] both worked.
Parsed(o) == o \in {"null_url", "url"}
\* except (KeyError, ValueError)
Caught_ValueErrorOnly(o) == o \in {"not_json"}
Caught(o) == o \in {"not_json", "no_key"}
\* What escapes the loop: raise_for_status, or subscripting a non-object.
UploadError(o) ==
    CASE o = "http_error" -> "HTTPError"
      [] o = "not_object" -> "TypeError"
      [] o = "no_key" -> "KeyError"
      [] OTHER -> "ValueError"

\* The thumbnail url the server assigns to the j-th image.
Url(j) == j
ThumbnailUrl(o, j) == IF o = "url" THEN Url(j) ELSE None

\* for i in range(0, 3): another try follows try i
TryAgain_OneMore(try) == try + 1 < MaxTries + 1
TryAgain(try) == try + 1 < MaxTries

\* return [image for image in image_urls if image is not None]
NotNone(u) == u # None
Collected(urls) == SelectSeq(urls, NotNone)

\* data.get("postAdForm.title", "")
TitleLen(d) == IF d.title = Missing THEN 0 ELSE d.title
TooShort_Strict(len) == ~(len > MinTitleLen)
TooShort(len) == ~(len >= MinTitleLen)
TooLong(len) == len > MaxTitleLen

\* Lines 182-191 of post_ad_using_data, which run between upload_image's
\* return and the submit POST: the exception they raise, or "none".
PostChecks(pg, d) ==
    IF ~pg.xsrf THEN "ElementNotFound"
    ELSE IF ~pg.fraud THEN "ElementNotFound"
    ELSE IF ~d.desc THEN "KeyError"
    ELSE IF TooShort(TitleLen(d)) THEN "TitleTooShort"
    ELSE IF TooLong(TitleLen(d)) THEN "TitleTooLong"
    ELSE "none"

\* upload_image returns urls: to its caller, or into post_ad_using_data,
\* which goes on to the submit POST unless a check raises.
ReturnUrls(caller, pg, urls) ==
    IF caller = "upload_image"
    THEN /\ ret' = Collected(urls)
         /\ Finish(Returned)
         /\ UNCHANGED data
    ELSE /\ data' = [data EXCEPT !.images = Collected(urls)]
         /\ IF PostChecks(pg, data') = "none"
            THEN pc' = "post_submit" /\ UNCHANGED outcome
            ELSE Finish(Raised(PostChecks(pg, data')))
         /\ UNCHANGED ret

\* for img_file in image_files: the loop starts, or has nothing to do.
StartUpload(caller, pg, n) ==
    /\ image_urls' = <<>>
    /\ i' = 0
    /\ IF n = 0
       THEN imgIdx' = 0 /\ ReturnUrls(caller, pg, <<>>)
       ELSE imgIdx' = 1 /\ pc' = "upload_try" /\ UNCHANGED <<outcome, ret, data>>

CallUploadImage ==
    /\ pc = "idle"
    /\ op' = "upload_image"
    /\ auth0' = serverAuth
    /\ log' = <<>>
    /\ \E n \in 0..MaxImages : nImages' = n /\ StartUpload("upload_image", page, n)
    /\ page' = page
    /\ UNCHANGED <<server, sessionLocals, adsLocals>>

\* r = session.post(image_upload_url, ...); r.raise_for_status(); try: ... except: ...
UploadTry ==
    /\ pc = "upload_try"
    /\ \E o \in UploadOutcomes :
         /\ log' = Append(log, [Req("POST", UploadUrl) EXCEPT !.n = imgIdx,
                                 !.status = IF o = "http_error" THEN o ELSE "ok",
                                 !.ok = o \in {"null_url", "url"},
                                 !.val = IF o = "url" THEN Url(imgIdx) ELSE None])
         /\ IF ~Parsed(o) /\ ~Caught(o)
            THEN /\ Finish(Raised(UploadError(o)))
                 /\ UNCHANGED <<imgIdx, i, image_urls, data, ret>>
            ELSE /\ image_urls' = IF Parsed(o) THEN Append(image_urls, ThumbnailUrl(o, imgIdx))
                                  ELSE image_urls
                 /\ IF ~Parsed(o) /\ TryAgain(i)
                    THEN /\ i' = i + 1
                         /\ UNCHANGED <<pc, imgIdx, outcome, data, ret>>
                    ELSE /\ i' = 0
                         /\ imgIdx' = imgIdx + 1
                         /\ IF imgIdx' > nImages
                            THEN ReturnUrls(op, page, image_urls')
                            ELSE UNCHANGED <<pc, outcome, data, ret>>
    /\ UNCHANGED <<frame, server, sessionLocals, adsLocals, nImages, page>>

TitleInputs == {Missing, 0, MinTitleLen - 1, MinTitleLen, MaxTitleLen, MaxTitleLen + 1}

CallPostAd ==
    /\ \E t \in TitleInputs, d \in BOOLEAN :
         data' = [title |-> t, desc |-> d, images |-> <<>>]
    /\ \E n \in 0..MaxImages : nImages' = n
    /\ Invoke("post_ad_using_data", "post_form")
    /\ UNCHANGED <<sessionLocals, adsLocals, imgIdx, i, image_urls, page>>

\* The form page: whether it holds the inline initialXsrfToken and the two
\* hidden fields.
FormPages == [initTok : BOOLEAN, xsrf : BOOLEAN, fraud : BOOLEAN]

\* resp = session.get('p-admarkt-post-ad.html?categoryId=15'); m = re.search(...)
PostForm ==
    /\ pc = "post_form"
    /\ log' = Append(log, Req("GET", PostFormUrl))
    /\ \E pg \in FormPages :
         /\ page' = pg
         /\ IF ~pg.initTok
            THEN /\ Finish(Raised("InitialXsrfTokenNotFound"))
                 /\ UNCHANGED <<imgIdx, i, image_urls, data, ret>>
            ELSE StartUpload(op, pg, nImages)
    /\ UNCHANGED <<frame, server, sessionLocals, adsLocals, nImages>>

\* The submit response: status, the "Delete Ad?" marker, the ban sentence,
\* and the Set-Cookie header (holding kjrva=<id>, not matching, or absent).
SubmitResponses ==
    [status : {"ok", "http_error"}, marker : BOOLEAN, ban : BOOLEAN,
     cookie : {"id", "no_match", "absent"}]
NewAdId == MaxAds + 1

\* What post_ad_using_data does with the submit response: the exception it
\* raises, or "none" when it returns the ad id.
SubmitResult_NoMarker(r) ==
    IF r.status = "http_error" THEN "HTTPError"
    ELSE IF r.cookie = "absent" THEN "KeyError"
    ELSE IF r.cookie = "no_match" THEN "AttributeError"
    ELSE "none"
SubmitResult(r) ==
    IF r.status = "http_error" THEN "HTTPError"
    ELSE IF ~r.marker THEN (IF r.ban THEN "Banned" ELSE "CouldNotPostAd")
    ELSE IF r.cookie = "absent" THEN "KeyError"
    ELSE IF r.cookie = "no_match" THEN "AttributeError"
    ELSE "none"

\* resp = session.post(new_ad_url, data=data); ... return ad_id
PostSubmit ==
    /\ pc = "post_submit"
    /\ \E r \in SubmitResponses :
         /\ log' = Append(log, [Req("POST", SubmitUrl) EXCEPT !.status = r.status, !.ok = r.marker,
                                                         !.ban = r.ban])
         /\ IF SubmitResult(r) = "none"
            THEN ret' = <<NewAdId>> /\ Finish(Returned)
            ELSE ret' = ret /\ Finish(Raised(SubmitResult(r)))
    /\ UNCHANGED <<frame, server, sessionLocals, adsLocals, postLocals>>

NextPost ==
    \/ CallUploadImage \/ UploadTry
    \/ CallPostAd \/ PostForm \/ PostSubmit

NextSession ==
    \/ CallLogin \/ LoginGet \/ LoginPost \/ LoginProbe
    \/ CallIsLoggedIn \/ IsLoggedIn
    \/ CallLogout \/ Logout

Next == NextSession \/ NextPost \/ NextAds

Spec == Init /\ [][Next]_vars
SpecAds == InitAds /\ [][NextAds]_vars
(* ============================== claims ================================= *)
Done == pc = "done"
ReturnedNormally == Done /\ outcome = Returned
RaisedWith(e) == Done /\ outcome = Raised(e)

\* Positions of the log holding a request to url.
At(url) == {p \in 1..Len(log) : log[p].url = url}
\* The upload POSTs for image j.
PostsFor(j) == {p \in At(UploadUrl) : log[p].n = j}
\* How often url u occurs in the sequence q.
Count(q, u) == Cardinality({p \in 1..Len(q) : q[p] = u})
Last(q) == q[Len(q)]

Uploading == op \in {"upload_image", "post_ad_using_data"}

\* At most 3 POSTs per image, and none after the first whose response
\* parsed as JSON with a 'thumbnailUrl' key.
UploadBudget ==
    \A j \in 1..MaxImages :
        /\ Cardinality(PostsFor(j)) <= 3
        /\ \A p \in PostsFor(j), q \in PostsFor(j) : log[p].ok => q <= p

\* Image j had a try that parsed with the key / with a url that is not null.
Succeeded(j) == \E p \in PostsFor(j) : log[p].ok
GotUrl(j) == \E p \in PostsFor(j) : log[p].ok /\ log[p].val # None

\* C1 as stated: at most 3 upload POSTs per image, none after the first
\* success, and the returned list holds the image's url exactly once if one
\* of its tries succeeded, and not at all if all 3 failed.
C1_AsStated ==
    /\ Uploading => UploadBudget
    /\ (op = "upload_image" /\ ReturnedNormally) =>
         \A j \in 1..nImages :
             Count(ret, Url(j)) = IF Succeeded(j) THEN 1 ELSE 0

\* C1 amended: at most 3 upload POSTs per image, none after the first
\* success; the returned list holds the image's url exactly once if the
\* successful try's 'thumbnailUrl' was not null, and not at all if all 3
\* tries failed or the 'thumbnailUrl' was null.
C1_UploadRetry ==
    /\ Uploading => UploadBudget
    /\ (op = "upload_image" /\ ReturnedNormally) =>
         /\ \A j \in 1..nImages :
              /\ Count(ret, Url(j)) = IF GotUrl(j) THEN 1 ELSE 0
              /\ ~Succeeded(j) => Cardinality(PostsFor(j)) = 3
         /\ Len(ret) = Cardinality({j \in 1..nImages : GotUrl(j)})

\* Two failed tries, then the third succeeds, and the url is returned.
C1_Witness ==
    /\ op = "upload_image" /\ ReturnedNormally
    /\ nImages = 2
    /\ Cardinality(PostsFor(1)) = 3
    /\ \A p \in PostsFor(1) : log[p].ok <=> p = 3
    /\ Count(ret, Url(1)) = 1

\* C2 as stated: whatever the failed tries are, upload_image returns
\* normally, and every image of the list has been tried.
C2_AsStated ==
    (op = "upload_image" /\ Done) =>
        /\ outcome = Returned
        /\ \A j \in 1..nImages : PostsFor(j) # {}

\* C2 amended: upload_image raises only for a response with an HTTP error
\* status (HTTPError) or a JSON body that is not an object (TypeError), and
\* then on the spot; a try that fails because the body is not JSON or has
\* no 'thumbnailUrl' never raises: the call returns normally, every image
\* has been tried, and the list holds the urls of the other images, in
\* order.
C2_Degrades ==
    (op = "upload_image" /\ Done) =>
        /\ outcome.kind = "raise" =>
             /\ outcome.exc = (IF Last(log).status = "http_error" THEN "HTTPError" ELSE "TypeError")
             /\ ~Last(log).ok
        /\ outcome = Returned =>
             /\ \A j \in 1..nImages : PostsFor(j) # {}
             /\ ret = SelectSeq([j \in 1..nImages |-> IF GotUrl(j) THEN Url(j) ELSE None], NotNone)

\* The first image fails all 3 tries, the second is tried and its url returned.
C2_Witness ==
    /\ op = "upload_image" /\ ReturnedNormally
    /\ nImages = 2
    /\ Cardinality(PostsFor(1)) = 3 /\ ~Succeeded(1)
    /\ ret = <<Url(2)>>

Posting == op = "post_ad_using_data"
ValidationErrors == {"TitleTooShort", "TitleTooLong"}
\* What post_ad_using_data can raise before it looks at the title.
EarlierErrors ==
    {"InitialXsrfTokenNotFound", "HTTPError", "TypeError", "ElementNotFound", "KeyError"}

\* C3: a title passes iff its length is in [10, 64], a missing title counting
\* as length 0; a title out of range raises the validation error when the
\* check is reached, and no submit POST is ever issued for it.
C3_TitleValidation ==
    Posting =>
        /\ (pc = "post_submit" \/ At(SubmitUrl) # {}) =>
             (data.title # Missing /\ data.title >= 10 /\ data.title <= 64)
        /\ (Done /\ outcome.exc \in ValidationErrors) => At(SubmitUrl) = {}
        /\ RaisedWith("TitleTooShort") => (data.title = Missing \/ data.title < 10)
        /\ RaisedWith("TitleTooLong") => data.title > 64
        /\ (Done /\ outcome.exc \notin EarlierErrors) =>
             /\ (data.title = Missing \/ data.title < 10) => RaisedWith("TitleTooShort")
             /\ data.title > 64 => RaisedWith("TitleTooLong")

\* A title of 65 characters is refused after the images went up, before the submit.
C3_Witness ==
    /\ Posting /\ RaisedWith("TitleTooLong")
    /\ data.title = 65
    /\ At(UploadUrl) # {}
    /\ At(SubmitUrl) = {}

\* C4: the server's view of the session changes only in login and logout;
\* login returns normally exactly when the ads page shows "Sign Out" after
\* the credential POST, which accepted credentials ensure, and raises and
\* stays anonymous from anonymous with rejected ones; is_logged_in fetches
\* the ads page and reports what it shows.
C4_SessionStates ==
    /\ (pc # "idle" /\ op \notin {"login", "logout"}) => serverAuth = auth0
    /\ (op = "login" /\ pc \in {"login_get", "login_post"}) => serverAuth = auth0
    /\ (op = "login" /\ Done) =>
         /\ outcome = Returned => (serverAuth /\ At(MyAdsUrl) # {})
         /\ outcome = Raised("CouldNotLogIn") => ~serverAuth
         /\ (creds = "good" /\ \E p \in At(LoginUrl) : log[p].method = "POST") =>
              (outcome = Returned /\ serverAuth)
         /\ (creds = "bad" /\ ~auth0) => (outcome.kind = "raise" /\ ~serverAuth)
         /\ At(MyAdsUrl) # {} => (outcome = Returned <=> Last(log).ok)
    /\ (op = "is_logged_in" /\ Done) =>
         (ret = <<serverAuth>> /\ Len(log) = 1 /\ log[1].url = MyAdsUrl)

\* Rejected credentials: the credential POST went out, login raised, and
\* the client is still anonymous.
C4_Witness ==
    /\ op = "login" /\ RaisedWith("CouldNotLogIn")
    /\ creds = "bad" /\ ~auth0 /\ ~serverAuth
    /\ \E p \in At(LoginUrl) : log[p].method = "POST"

\* C5: logout always returns normally and leaves the session anonymous,
\* also when it was anonymous already; after that only the credential POST
\* of a login with accepted credentials makes the session authenticated
\* again, and until then is_logged_in returns false.
C5_LogoutFinal ==
    [][ /\ pc = "logout_get" => (pc' = "done" /\ outcome' = Returned /\ ~serverAuth')
        /\ (~serverAuth /\ serverAuth') => (pc = "login_post" /\ creds = "good")
        /\ (pc = "probe" /\ ~serverAuth) => ret' = <<FALSE>> ]_vars

\* logout called on a session that is anonymous already.
C5_Witness ==
    /\ op = "logout" /\ ReturnedNormally
    /\ ~auth0 /\ ~serverAuth
    /\ Len(log) = 1 /\ log[1].url = LogoutUrl

Listing == op \in {"get_all_ads", "delete_ad_using_title"}
IdsOf(info) == {info[key].id : key \in DOMAIN info}
Range(q) == {q[p] : p \in 1..Len(q)}

\* C6: get_all_ads first GETs the ads endpoint, once; with an empty ad map
\* it returns the empty list and sends no ranks request; with a non-empty
\* one it sends exactly one ranks GET, right after, with one 'ids' parameter
\* per ad of the map.
C6_ListRequests ==
    (Listing /\ pc # "ads_get") =>
        /\ log[1].url = AdsUrl /\ log[1].method = "GET"
        /\ Cardinality(At(AdsUrl)) = 1
        /\ ads_info = EmptyMap =>
             /\ At(RanksUrl) = {}
             /\ (op = "get_all_ads" /\ ReturnedNormally) => ret = <<>>
        /\ (ads_info # EmptyMap /\ pc = "ranks_get") => At(RanksUrl) = {}
        /\ (ads_info # EmptyMap /\ pc # "ranks_get") =>
             /\ At(RanksUrl) = {2}
             /\ log[2].method = "GET"
             /\ Len(log[2].ids) = Cardinality(DOMAIN ads_info)
             /\ Range(log[2].ids) = IdsOf(ads_info)

\* The account has no ads left: the empty list, after one request.
C6_Witness ==
    /\ op = "get_all_ads" /\ ReturnedNormally
    /\ ret = <<>>
    /\ Len(log) = 1

\* The ids the delete POSTs of the log name, in order.
DeletedSeq == [p \in 1..Cardinality(At(DeleteUrl)) |-> log[SortedSeq(At(DeleteUrl))[p]].n]
\* The listed ads whose trimmed title is the trimmed argument.
Wanted == {all_ads[j].id : j \in {m \in 1..Len(all_ads) : strip(all_ads[m].title) = strip(title)}}

\* C7: when delete_ad_using_title returns, it has sent one delete for each
\* listed ad whose trimmed title equals the trimmed argument and for no
\* other ad, and these ads are gone; when a delete is refused, the error
\* reaches the caller, nothing more is sent, and the ads deleted before it
\* stay deleted.
C7_DeleteByTitle ==
    (op = "delete_ad_using_title" /\ Done) =>
        /\ outcome = Returned =>
             /\ Range(DeletedSeq) = Wanted
             /\ Len(DeletedSeq) = Cardinality(Wanted)
             /\ \A p \in At(DeleteUrl) : log[p].ok
             /\ Wanted \cap DOMAIN serverAds = {}
        /\ (At(DeleteUrl) # {} /\ ~Last(log).ok /\ Last(log).url = DeleteUrl) =>
             /\ outcome = Raised("CouldNotDeleteAd")
             /\ Range(DeletedSeq) \subseteq Wanted
             /\ \A p \in At(DeleteUrl) : p # Len(log) => (log[p].ok /\ log[p].n \notin DOMAIN serverAds)

\* Two ads whose titles differ only by whitespace, both deleted for an
\* argument that differs from either by whitespace.
C7_Witness ==
    /\ op = "delete_ad_using_title" /\ ReturnedNormally
    /\ Len(all_ads) = 2
    /\ all_ads[1].title # all_ads[2].title
    /\ title # all_ads[1].title /\ title # all_ads[2].title
    /\ Len(DeletedSeq) = 2

ListedOnce ==
    /\ Len(ret) = Cardinality(DOMAIN serverAds)
    /\ {ret[p].id : p \in 1..Len(ret)} = DOMAIN serverAds
    /\ \A p \in 1..Len(ret) : ret[p].title = serverAds[ret[p].id]

\* C8 as stated: a normal return on a non-empty ad set holds one record per
\* ad, each with a 'rank' field, which is the rank the ranks response gave
\* for that ad's id.
C8_AsStated ==
    (op = "get_all_ads" /\ ReturnedNormally /\ ads_info # EmptyMap) =>
        /\ ListedOnce
        /\ \A p \in 1..Len(ret) :
             /\ "rank" \in DOMAIN ret[p]
             /\ ret[p].id \in DOMAIN ranks_json
             /\ ret[p].rank = ranks_json[ret[p].id]

\* C8 amended: a normal return on a non-empty ad set holds one record per
\* ad; a record has a 'rank' field exactly if the ranks response holds an
\* entry for its id, and then it is that entry's rank.
C8_RankMerge ==
    (op = "get_all_ads" /\ ReturnedNormally /\ ads_info # EmptyMap) =>
        /\ ListedOnce
        /\ \A p \in 1..Len(ret) :
             /\ "rank" \in DOMAIN ret[p] <=> ret[p].id \in DOMAIN ranks_json
             /\ "rank" \in DOMAIN ret[p] => ret[p].rank = ranks_json[ret[p].id]

\* Two ads, each with its own rank.
C8_Witness ==
    /\ op = "get_all_ads" /\ ReturnedNormally
    /\ Len(ret) = 2
    /\ \A p \in 1..2 : "rank" \in DOMAIN ret[p]
    /\ ret[1].rank # ret[2].rank

Deleting == op \in {"delete_ad", "delete_ad_using_title"}

\* C9: every delete POST comes right after a GET of the ads management page
\* whose script held a token, and sends that page's token; without a token
\* no POST goes out; delete_ad returns normally only after a POST answered
\* with "OK", and raises the action error for an answer without it.
C9_FreshToken ==
    Deleting =>
        /\ \A p \in At(DeleteUrl) :
             /\ p > 1
             /\ log[p - 1].url = MyAdsUrl /\ log[p - 1].method = "GET"
             /\ log[p - 1].ok
             /\ log[p].tok = log[p - 1].val
        /\ RaisedWith("XsrfTokenNotFound") => (Last(log).url = MyAdsUrl /\ ~Last(log).ok)
        /\ (op = "delete_ad" /\ ReturnedNormally) =>
             (Len(log) = 2 /\ log[2].url = DeleteUrl /\ log[2].n = ad_id /\ log[2].ok)
        /\ (Done /\ log # <<>> /\ Last(log).url = DeleteUrl /\ ~Last(log).ok) =>
             outcome = Raised("CouldNotDeleteAd")

\* Two deletes of one delete_ad_using_title call, each with the token of its own page.
C9_Witness ==
    /\ op = "delete_ad_using_title" /\ ReturnedNormally
    /\ Len(log) = 6
    /\ log[4].tok # log[6].tok

\* The requests of post_ad_using_data come as: the form GET, the upload
\* POSTs, at most one submit POST.
PostOrder ==
    /\ log # <<>> => (log[1].url = PostFormUrl /\ log[1].method = "GET")
    /\ \A p \in 2..Len(log) : log[p].url \in {UploadUrl, SubmitUrl} /\ log[p].method = "POST"
    /\ At(SubmitUrl) \subseteq {Len(log)}

PostPreconditions ==
    /\ (pc # "post_form" /\ ~page.initTok) =>
         (RaisedWith("InitialXsrfTokenNotFound") /\ Len(log) = 1)
    /\ (~page.xsrf \/ ~page.fraud) => At(SubmitUrl) = {}
    /\ ReturnedNormally => (At(SubmitUrl) # {} /\ Last(log).ok /\ ret = <<NewAdId>>)

\* C10 as stated: order, preconditions, an id only after the success
\* marker, and without the marker an action error, the ban variant iff the
\* ban sentence is there.
C10_AsStated ==
    Posting =>
        /\ PostOrder
        /\ PostPreconditions
        /\ (At(SubmitUrl) # {} /\ ~Last(log).ok) =>
             RaisedWith(IF Last(log).ban THEN "Banned" ELSE "CouldNotPostAd")

\* C10 amended: order, preconditions, an id only after the success marker;
\* a submit response with an HTTP error status raises HTTPError, and one
\* with a success status and without the marker raises an action error,
\* the ban variant iff the ban sentence is there.
C10_PostSteps ==
    Posting =>
        /\ PostOrder
        /\ PostPreconditions
        /\ (At(SubmitUrl) # {} /\ Last(log).status = "http_error") => RaisedWith("HTTPError")
        /\ (At(SubmitUrl) # {} /\ Last(log).status = "ok" /\ ~Last(log).ok) =>
             RaisedWith(IF Last(log).ban THEN "Banned" ELSE "CouldNotPostAd")

\* The form GET, an upload, and a submit answered with the ban sentence.
C10_Witness ==
    /\ Posting /\ RaisedWith("Banned")
    /\ Len(log) = 3
    /\ log[2].url = UploadUrl /\ log[3].url = SubmitUrl
=============================================================================
